---------------------------- MODULE Spec2Model ----------------------------
(***************************************************************************)
(* Model of the builtin functions of vm/src/builtins.rs.                   *)
(*                                                                         *)
(* The heap maps handles (PyObjectRef) to objects (PyObject: a kind and a  *)
(* type).  Every builtin is an operator from the interpreter state and the *)
(* positional arguments to an Outcome: its PyResult, the heap it leaves    *)
(* and the protocol calls it made (attribute lookups, invocations, code    *)
(* runs).  One action per builtin applies it to arguments drawn from a     *)
(* bounded pool and records the call in `last`.                            *)
(*                                                                         *)
(* The collaborators of builtins.rs that live in other files of the        *)
(* repository (vm.get_attribute, set_attr, vm.invoke, objtype::new,        *)
(* objtype::isinstance, vm.get_locals, vm.run_code_obj, compile::compile)  *)
(* are modelled from the specification's sections 4.2 - 4.6.               *)
(***************************************************************************)
EXTENDS Integers, Sequences, FiniteSets, TLC

VARIABLES
    heap,   \* handle -> object
    addr,   \* handle -> address of the allocation (four 16-bit limbs)
    last    \* the last call: builtin, arguments, result and effects

vars == <<heap, addr, last>>

(***************************************************************************)
(* Strings are sequences of Unicode scalar values.                         *)
(***************************************************************************)
StrX == <<120>>                                   \* "x"
StrY == <<121>>                                   \* "y"
StrGreet == <<103, 114, 101, 101, 116>>           \* "greet"
StrLenMethod == <<95, 95, 108, 101, 110, 95, 95>> \* "__len__"
StrHe == <<104, 233>>                             \* "hé"
StrUnderscore == <<95>>                           \* "_"

Null == "null"

(***************************************************************************)
(* Handles: the context's canonical types, the values the scenarios start  *)
(* with, and the slots of objects allocated while running.                 *)
(***************************************************************************)
TypeNs ==
    ("type" :> "type.ns") @@ ("object" :> "object.ns") @@ ("int" :> "int.ns")
    @@ ("str" :> "str.ns") @@ ("dict" :> "dict.ns") @@ ("tuple" :> "tuple.ns")
    @@ ("bool" :> "bool.ns") @@ ("list" :> "list.ns")
    @@ ("function" :> "function.ns") @@ ("BaseException" :> "BaseException.ns")
    @@ ("Exception" :> "Exception.ns") @@ ("TypeError" :> "TypeError.ns")
    @@ ("AttributeError" :> "AttributeError.ns")
    @@ ("RuntimeError" :> "RuntimeError.ns")
    @@ ("A" :> "A.ns") @@ ("L" :> "L.ns") @@ ("M" :> "M.ns")

TypeBases ==
    ("type" :> <<"object">>) @@ ("object" :> <<>>) @@ ("int" :> <<"object">>)
    @@ ("str" :> <<"object">>) @@ ("dict" :> <<"object">>)
    @@ ("tuple" :> <<"object">>) @@ ("function" :> <<"object">>)
    @@ ("bool" :> <<"object">>) @@ ("list" :> <<"object">>)
    @@ ("BaseException" :> <<"object">>) @@ ("Exception" :> <<"BaseException">>)
    @@ ("TypeError" :> <<"Exception">>) @@ ("AttributeError" :> <<"Exception">>)
    @@ ("RuntimeError" :> <<"Exception">>)
    @@ ("A" :> <<"object">>) @@ ("L" :> <<"object">>) @@ ("M" :> <<"A", "object">>)

TypeHandles == DOMAIN TypeNs

NsHandles == {TypeNs[t] : t \in TypeHandles}

ValueHandles ==
    {"none", "three", "minus1", "sx", "sgreet", "she", "d3", "d0", "t2",
     "a", "l", "m", "fn_len", "fn_dictlen", "fn_fail", "boom",
     "body_greet", "body_fail", "body_empty", "code", "locals"}

DynSeq == <<"n1", "n2", "n3", "n4", "n5", "n6", "n7", "n8">>

DynHandles == {DynSeq[i] : i \in 1..Len(DynSeq)}

Handles == TypeHandles \cup NsHandles \cup ValueHandles \cup DynHandles

(***************************************************************************)
(* Objects.  One record shape for every kind; a kind reads only its own    *)
(* fields: Integer ival; String sval; Dict dict; Tuple items; Instance     *)
(* dict (own attributes); Type sval (name), items (bases), ref (the        *)
(* namespace Dict); Function tag (the native operation); Code sval, ref    *)
(* (the name it stores and the value); List ivals.                         *)
(***************************************************************************)
EmptyNs == [n \in {} |-> Null]

NoObj ==
    [kind |-> "Free", typ |-> Null, ival |-> 0, sval |-> <<>>, dict |-> EmptyNs,
     items |-> <<>>, ref |-> Null, tag |-> "", ivals |-> <<>>]

new_int(v) == [NoObj EXCEPT !.kind = "Integer", !.typ = "int", !.ival = v]
new_str(s) == [NoObj EXCEPT !.kind = "String", !.typ = "str", !.sval = s]
new_bool(b) == [NoObj EXCEPT !.kind = "Boolean", !.typ = "bool",
                             !.ival = IF b THEN 1 ELSE 0]
new_dict_obj(d) == [NoObj EXCEPT !.kind = "Dict", !.typ = "dict", !.dict = d]
new_tuple(xs) == [NoObj EXCEPT !.kind = "Tuple", !.typ = "tuple", !.items = xs]
new_list_of_ints(xs) == [NoObj EXCEPT !.kind = "List", !.typ = "list", !.ivals = xs]
new_instance(t) == [NoObj EXCEPT !.kind = "Instance", !.typ = t]
new_exception(t, msg) == [NoObj EXCEPT !.kind = "Instance", !.typ = t, !.tag = msg]
new_rustfunc(op) == [NoObj EXCEPT !.kind = "Function", !.typ = "function", !.tag = op]
new_code(name, value) == [NoObj EXCEPT !.kind = "Code", !.typ = "object",
                                       !.sval = name, !.ref = value]
new_class(meta, name, bases, ns) ==
    [NoObj EXCEPT !.kind = "Type", !.typ = meta, !.sval = name, !.items = bases,
                  !.ref = ns]

Put(f, k, v) == [x \in DOMAIN f \cup {k} |-> IF x = k THEN v ELSE f[x]]

(***************************************************************************)
(* PyResult: Ok or Err of a Value, or the process aborting (panic!,        *)
(* unimplemented!).  A Value is a handle of the heap (ref) or a freshly    *)
(* created immutable object no other holder shares (obj).                  *)
(***************************************************************************)
OkRef(h) == [tag |-> "Ok", ref |-> h, obj |-> NoObj]
OkNew(o) == [tag |-> "Ok", ref |-> Null, obj |-> o]
ErrRef(h) == [tag |-> "Err", ref |-> h, obj |-> NoObj]
ErrNew(o) == [tag |-> "Err", ref |-> Null, obj |-> o]
Abort == [tag |-> "Abort", ref |-> Null, obj |-> NoObj]

new_type_error(msg) == ErrNew(new_exception("TypeError", msg))

Outcome(res, h, looked, invoked, ran) ==
    [res |-> res, heap |-> h, looked |-> looked, invoked |-> invoked, ran |-> ran]

Pure(res, h) == Outcome(res, h, <<>>, <<>>, <<>>)


(***************************************************************************)
(* Allocation: a new object takes the first free slot.                     *)
(***************************************************************************)
FreeSlots(h) == {i \in 1..Len(DynSeq) : h[DynSeq[i]].kind = "Free"}

NewHandle(h) ==
    DynSeq[CHOOSE i \in FreeSlots(h) : \A j \in FreeSlots(h) : i <= j]

(***************************************************************************)
(* DictProtocol::set_item on a Dict object.                                *)
(***************************************************************************)
set_item(h, d, key, v) ==
    IF h[d].kind = "Dict" THEN [h EXCEPT ![d].dict = Put(@, key, v)] ELSE h

(***************************************************************************)
(* Attribute protocol (4.2): the receiver's own namespace first, then the  *)
(* namespace of its type and of each base, depth-first, left to right.     *)
(***************************************************************************)
OwnNamespace(h, obj) ==
    CASE h[obj].kind = "Instance" -> h[obj].dict
      [] h[obj].kind = "Type" /\ h[obj].ref # Null -> h[h[obj].ref].dict
      [] OTHER -> EmptyNs

RECURSIVE TypeLookup(_, _, _)
RECURSIVE BasesLookup(_, _, _)

TypeLookup(h, t, name) ==
    IF t = Null \/ h[t].kind # "Type" THEN Null
    ELSE LET ns == OwnNamespace(h, t)
         IN  IF name \in DOMAIN ns THEN ns[name]
             ELSE BasesLookup(h, h[t].items, name)

BasesLookup(h, bases, name) ==
    IF bases = <<>> THEN Null
    ELSE LET v == TypeLookup(h, Head(bases), name)
         IN  IF v # Null THEN v ELSE BasesLookup(h, Tail(bases), name)

vm_get_attribute(h, obj, name) ==
    LET own == OwnNamespace(h, obj)
    IN  IF name \in DOMAIN own THEN OkRef(own[name])
        ELSE LET v == TypeLookup(h, h[obj].typ, name)
             IN  IF v # Null THEN OkRef(v)
                 ELSE ErrNew(new_exception("AttributeError", "no such attribute"))

(***************************************************************************)
(* set_attr writes the receiver's own namespace, never its type's.  A kind *)
(* that has no namespace of its own is left as it is.                      *)
(***************************************************************************)
SupportsAttributes(h, obj) ==
    \/ h[obj].kind = "Instance"
    \/ h[obj].kind = "Type" /\ h[obj].ref # Null

set_attr(h, obj, name, value) ==
    CASE h[obj].kind = "Instance" -> [h EXCEPT ![obj].dict = Put(@, name, value)]
      [] h[obj].kind = "Type" /\ h[obj].ref # Null -> set_item(h, h[obj].ref, name, value)
      [] OTHER -> h

(***************************************************************************)
(* Invocation engine (4.3), native path: the operation is called with the  *)
(* arguments and its result or error is propagated unchanged.  The native  *)
(* operations of the scenarios: two length methods, a failing one and      *)
(* three class bodies, which populate the namespace they are given.        *)
(***************************************************************************)
NativeCall(h, op, args) ==
    CASE op = "len7" -> [res |-> OkNew(new_int(7)), heap |-> h]
      [] op = "len99" -> [res |-> OkNew(new_int(99)), heap |-> h]
      [] op = "fail" -> [res |-> ErrRef("boom"), heap |-> h]
      [] op = "body_empty" -> [res |-> OkRef("none"), heap |-> h]
      [] op = "body_greet" ->
            IF args = <<>> THEN [res |-> new_type_error("Expected 1 arguments"), heap |-> h]
            ELSE [res |-> OkRef("none"),
                  heap |-> set_item(set_item(h, args[1], StrGreet, "fn_len"),
                                    args[1], StrX, "sgreet")]
      [] op = "body_fail" ->
            IF args = <<>> THEN [res |-> new_type_error("Expected 1 arguments"), heap |-> h]
            ELSE [res |-> ErrRef("boom"),
                  heap |-> set_item(h, args[1], StrGreet, "fn_fail")]
      [] OTHER -> [res |-> new_type_error("unknown native operation"), heap |-> h]

vm_invoke(h, callable, args) ==
    IF h[callable].kind = "Function" THEN NativeCall(h, h[callable].tag, args)
    ELSE [res |-> new_type_error("object is not callable"), heap |-> h]

(***************************************************************************)
(* objtype::new: a Type Value holding {name, bases, namespace}, bound to   *)
(* the metaclass (4.5 step 4), allocated at `slot`.                        *)
(***************************************************************************)
objtype_new(h, slot, metaclass, name, bases, namespace) ==
    [res |-> OkRef(slot),
     heap |-> [h EXCEPT ![slot] = new_class(metaclass, name, bases, namespace)]]

(***************************************************************************)
(* objtype::isinstance (4.6): the value's type, then its bases             *)
(* transitively.                                                           *)
(***************************************************************************)
RECURSIVE IsSubtype(_, _, _)
IsSubtype(h, t, typ) ==
    IF t = Null \/ h[t].kind # "Type" THEN FALSE
    ELSE \/ t = typ
         \/ \E i \in 1..Len(h[t].items) : IsSubtype(h, h[t].items[i], typ)

objtype_isinstance(h, obj, typ) == IsSubtype(h, h[obj].typ, typ)

(***************************************************************************)
(* The virtual machine: the heap, the addresses and the locals of the      *)
(* running frame.  vm.get_locals() hands out the frame's namespace itself. *)
(***************************************************************************)
VM == [heap |-> heap, addr |-> addr, locals |-> "locals"]

vm_get_locals(vm) == vm.locals

vm_get_type == "type"

(***************************************************************************)
(* The excluded collaborators, at their boundary (6): the compiler turns   *)
(* the rendering of a String or an Integer into a code object and rejects  *)
(* any other; running a code object stores its name in the scope's locals. *)
(***************************************************************************)
compile_compile(h, source) ==
    IF h[source].kind \in {"String", "Integer"}
    THEN [ok |-> TRUE, value |-> new_code(StrY, Null)]
    ELSE [ok |-> FALSE, value |-> NoObj]

vm_run_code_obj(h, code_obj, locals) ==
    IF h[code_obj].kind = "Code" /\ h[locals].kind = "Dict"
    THEN [res |-> OkRef("none"),
          heap |-> set_item(h, locals, h[code_obj].sval, h[code_obj].ref)]
    ELSE [res |-> new_type_error("not a code object"), heap |-> h]

(***************************************************************************)
(* arg_count_check!: the exact form and the minimum/maximum form, where a  *)
(* maximum of -1 means no maximum.  Pass stands for falling through.       *)
(***************************************************************************)
Pass == [tag |-> "Pass", ref |-> Null, obj |-> NoObj]

arg_count_error(msg, count) ==
    ErrNew([new_exception("TypeError", msg) EXCEPT !.ival = count])

\* Variant: only too few arguments are rejected.
arg_count_check_too_few_only(args, expected_count) ==
    IF Len(args) < expected_count
    THEN arg_count_error("Expected {} arguments", expected_count)
    ELSE Pass

arg_count_check(args, expected_count) ==
    IF Len(args) # expected_count
    THEN arg_count_error("Expected {} arguments", expected_count)
    ELSE Pass

arg_count_check_range(args, expected_minimum, expected_maximum) ==
    IF Len(args) < expected_minimum
    THEN arg_count_error("Expected at least {} arguments", expected_minimum)
    ELSE IF expected_maximum # -1 /\ Len(args) > expected_maximum
         THEN arg_count_error("Expected at most {} arguments", expected_maximum)
         ELSE Pass

(***************************************************************************)
(* get_locals: a new Dict holding a copy of every item of the frame's      *)
(* locals; dir_locals is get_locals; dir_object is a new empty Dict.       *)
(***************************************************************************)
RECURSIVE CopyItems(_, _, _, _)
CopyItems(h, d, elements, keys) ==
    IF keys = {} THEN h
    ELSE LET k == CHOOSE k \in keys : TRUE
         IN  CopyItems(set_item(h, d, k, elements[k]), d, elements, keys \ {k})

get_locals(vm) ==
    LET d == NewHandle(vm.heap)
        h1 == [vm.heap EXCEPT ![d] = new_dict_obj(EmptyNs)]
        locals == vm_get_locals(vm)
    IN  [ref |-> d,
         heap |-> IF h1[locals].kind = "Dict"
                  THEN CopyItems(h1, d, h1[locals].dict, DOMAIN h1[locals].dict)
                  ELSE h1]

dir_locals(vm) == get_locals(vm)

dir_object(vm, obj) ==
    LET d == NewHandle(vm.heap)
    IN  [ref |-> d, heap |-> [vm.heap EXCEPT ![d] = new_dict_obj(EmptyNs)]]

(***************************************************************************)
(* chr: the Integer as u32, then char::from_u32, '_' when it is no scalar  *)
(* value.  A negative i32 as u32 is above 0x10FFFF.                        *)
(***************************************************************************)
char_from_u32_is_some(v) ==
    v >= 0 /\ (v < 55296 \/ (v >= 57344 /\ v <= 1114111))

builtin_chr(vm, args) ==
    LET chk == arg_count_check(args, 1)
    IN  IF chk.tag # "Pass" THEN Pure(chk, vm.heap)
        ELSE LET code_point_obj == vm.heap[args[1]]
             IN  IF code_point_obj.kind = "Integer"
                 THEN Pure(OkNew(new_str(
                          IF char_from_u32_is_some(code_point_obj.ival)
                          THEN <<code_point_obj.ival>> ELSE StrUnderscore)), vm.heap)
                 ELSE Pure(Abort, vm.heap)

builtin_compile(vm, args) ==
    LET chk == arg_count_check_range(args, 1, -1)
    IN  IF chk.tag # "Pass" THEN Pure(chk, vm.heap)
        ELSE LET c == compile_compile(vm.heap, args[1])
             IN  IF c.ok THEN Pure(OkNew(c.value), vm.heap)
                 ELSE Pure(new_type_error("compile error"), vm.heap)

builtin_dir(vm, args) ==
    IF args = <<>>
    THEN LET d == dir_locals(vm) IN Pure(OkRef(d.ref), d.heap)
    ELSE LET d == dir_object(vm, args[1]) IN Pure(OkRef(d.ref), d.heap)

builtin_eval(vm, args) ==
    LET chk == arg_count_check(args, 3)
    IN  IF chk.tag # "Pass" THEN Pure(chk, vm.heap)
        ELSE LET source == args[1]
                 locals == args[3]
                 r == vm_run_code_obj(vm.heap, source, locals)
             IN  Outcome(r.res, r.heap, <<>>, <<>>,
                         <<[code |-> source, locals |-> locals]>>)

builtin_getattr(vm, args) ==
    LET chk == arg_count_check(args, 2)
    IN  IF chk.tag # "Pass" THEN Pure(chk, vm.heap)
        ELSE LET obj == args[1]
                 attr == vm.heap[args[2]]
             IN  IF attr.kind = "String"
                 THEN Outcome(vm_get_attribute(vm.heap, obj, attr.sval), vm.heap,
                              <<[obj |-> obj, name |-> attr.sval]>>, <<>>, <<>>)
                 ELSE Pure(new_type_error("Attr can only be str for now"), vm.heap)

\* Variant: a failed lookup is reported as found.
builtin_hasattr_err_is_true(vm, args) ==
    LET chk == arg_count_check(args, 2)
    IN  IF chk.tag # "Pass" THEN Pure(chk, vm.heap)
        ELSE LET obj == args[1]
                 attr == vm.heap[args[2]]
             IN  IF attr.kind = "String"
                 THEN Outcome(OkNew(new_bool(TRUE)), vm.heap,
                              <<[obj |-> obj, name |-> attr.sval]>>, <<>>, <<>>)
                 ELSE Pure(new_type_error("Attr can only be str for now"), vm.heap)

builtin_hasattr(vm, args) ==
    LET chk == arg_count_check(args, 2)
    IN  IF chk.tag # "Pass" THEN Pure(chk, vm.heap)
        ELSE LET obj == args[1]
                 attr == vm.heap[args[2]]
             IN  IF attr.kind = "String"
                 THEN LET has_attr ==
                              vm_get_attribute(vm.heap, obj, attr.sval).tag = "Ok"
                      IN  Outcome(OkNew(new_bool(has_attr)), vm.heap,
                                  <<[obj |-> obj, name |-> attr.sval]>>, <<>>, <<>>)
                 ELSE Pure(new_type_error("Attr can only be str for now"), vm.heap)

(***************************************************************************)
(* id: get_id() is the address of the allocation, a usize of four 16-bit   *)
(* limbs (least significant first); `as i32` keeps the low 32 bits, read   *)
(* as a two's complement number.                                           *)
(***************************************************************************)
get_id(vm, obj) == vm.addr[obj]

usize_as_i32(a) ==
    IF a[2] >= 32768 THEN a[1] + 65536 * (a[2] - 65536) ELSE a[1] + 65536 * a[2]

builtin_id(vm, args) ==
    LET chk == arg_count_check(args, 1)
    IN  IF chk.tag # "Pass" THEN Pure(chk, vm.heap)
        ELSE Pure(OkNew(new_int(usize_as_i32(get_id(vm, args[1])))), vm.heap)

builtin_isinstance(vm, args) ==
    LET chk == arg_count_check(args, 2)
    IN  IF chk.tag # "Pass" THEN Pure(chk, vm.heap)
        ELSE Pure(OkNew(new_bool(objtype_isinstance(vm.heap, args[1], args[2]))),
                  vm.heap)

(***************************************************************************)
(* len: Dict and Tuple count their elements; String::len() counts the      *)
(* bytes of the UTF-8 encoding; any other kind resolves "__len__" and      *)
(* invokes it with no arguments.  When "__len__" does not resolve, the     *)
(* error carries a String whose text starts with "TypeError".  (The counts *)
(* of the model are far below 2^31, where `as i32` changes nothing.)       *)
(***************************************************************************)
utf8_len(c) == IF c < 128 THEN 1 ELSE IF c < 2048 THEN 2 ELSE IF c < 65536 THEN 3 ELSE 4

RECURSIVE string_len(_)
string_len(value) ==
    IF value = <<>> THEN 0 ELSE utf8_len(Head(value)) + string_len(Tail(value))

StrTypeError == <<84, 121, 112, 101, 69, 114, 114, 111, 114>>

builtin_len(vm, args) ==
    LET chk == arg_count_check(args, 1)
    IN  IF chk.tag # "Pass" THEN Pure(chk, vm.heap)
        ELSE LET o == vm.heap[args[1]]
             IN  CASE o.kind = "Dict" ->
                        Pure(OkNew(new_int(Cardinality(DOMAIN o.dict))), vm.heap)
                   [] o.kind = "Tuple" -> Pure(OkNew(new_int(Len(o.items))), vm.heap)
                   [] o.kind = "String" -> Pure(OkNew(new_int(string_len(o.sval))), vm.heap)
                   [] OTHER ->
                        LET len_method_name == StrLenMethod
                            looked == <<[obj |-> args[1], name |-> len_method_name]>>
                            r == vm_get_attribute(vm.heap, args[1], len_method_name)
                        IN  IF r.tag = "Ok"
                            THEN LET inv == vm_invoke(vm.heap, r.ref, <<>>)
                                 IN  Outcome(inv.res, inv.heap, looked,
                                             <<[fn |-> r.ref, args |-> <<>>,
                                                res |-> inv.res]>>, <<>>)
                            ELSE Outcome(ErrNew(new_str(StrTypeError)), vm.heap,
                                         looked, <<>>, <<>>)

builtin_locals(vm, args) ==
    LET chk == arg_count_check(args, 0)
    IN  IF chk.tag # "Pass" THEN Pure(chk, vm.heap)
        ELSE Pure(OkRef(vm_get_locals(vm)), vm.heap)

builtin_range(vm, args) ==
    LET chk == arg_count_check(args, 1)
    IN  IF chk.tag # "Pass" THEN Pure(chk, vm.heap)
        ELSE LET o == vm.heap[args[1]]
             IN  IF o.kind = "Integer"
                 THEN Pure(OkNew(new_list_of_ints([i \in 1..o.ival |-> i - 1])), vm.heap)
                 ELSE Pure(Abort, vm.heap)

\* Variant: a name the receiver already binds keeps its value.
builtin_setattr_keeps_bound(vm, args) ==
    LET chk == arg_count_check(args, 3)
    IN  IF chk.tag # "Pass" THEN Pure(chk, vm.heap)
        ELSE LET obj == args[1]
                 attr == vm.heap[args[2]]
                 value == args[3]
             IN  IF attr.kind = "String"
                 THEN Pure(OkRef("none"),
                           IF attr.sval \in DOMAIN OwnNamespace(vm.heap, obj)
                           THEN vm.heap
                           ELSE set_attr(vm.heap, obj, attr.sval, value))
                 ELSE Pure(new_type_error("Attr can only be str for now"), vm.heap)

builtin_setattr(vm, args) ==
    LET chk == arg_count_check(args, 3)
    IN  IF chk.tag # "Pass" THEN Pure(chk, vm.heap)
        ELSE LET obj == args[1]
                 attr == vm.heap[args[2]]
                 value == args[3]
             IN  IF attr.kind = "String"
                 THEN Pure(OkRef("none"), set_attr(vm.heap, obj, attr.sval, value))
                 ELSE Pure(new_type_error("Attr can only be str for now"), vm.heap)

(***************************************************************************)
(* __build_class__: the body and the name are shifted off the arguments    *)
(* (a panic when one is missing or the name is no String), the root type   *)
(* is pushed after the remaining arguments, the body is invoked on a new   *)
(* Dict and its result dropped, and objtype::new makes the Type.           *)
(***************************************************************************)
\* Variant: the root type is pushed only when the explicit bases lack it.
builtin_build_class_root_once(vm, args) ==
    IF Len(args) < 2 THEN Pure(Abort, vm.heap)
    ELSE LET function == args[1]
             name_arg == vm.heap[args[2]]
         IN  IF name_arg.kind # "String" THEN Pure(Abort, vm.heap)
             ELSE LET name == name_arg.sval
                      explicit == SubSeq(args, 3, Len(args))
                      bases == IF \E i \in 1..Len(explicit) : explicit[i] = "object"
                               THEN explicit ELSE Append(explicit, "object")
                      metaclass == vm_get_type
                      namespace == NewHandle(vm.heap)
                      h1 == [vm.heap EXCEPT ![namespace] = new_dict_obj(EmptyNs)]
                      inv == vm_invoke(h1, function, <<namespace>>)
                      t == objtype_new(inv.heap, NewHandle(inv.heap), metaclass,
                                       name, bases, namespace)
                  IN  Outcome(t.res, t.heap, <<>>,
                              <<[fn |-> function, args |-> <<namespace>>,
                                 res |-> inv.res]>>, <<>>)

\* Variant: the Type gets a new Dict of its own, not the one the body filled.
builtin_build_class_other_namespace(vm, args) ==
    IF Len(args) < 2 THEN Pure(Abort, vm.heap)
    ELSE LET function == args[1]
             name_arg == vm.heap[args[2]]
         IN  IF name_arg.kind # "String" THEN Pure(Abort, vm.heap)
             ELSE LET name == name_arg.sval
                      bases == Append(SubSeq(args, 3, Len(args)), "object")
                      metaclass == vm_get_type
                      namespace == NewHandle(vm.heap)
                      h1 == [vm.heap EXCEPT ![namespace] = new_dict_obj(EmptyNs)]
                      inv == vm_invoke(h1, function, <<namespace>>)
                      other == NewHandle(inv.heap)
                      h2 == [inv.heap EXCEPT ![other] = new_dict_obj(EmptyNs)]
                      t == objtype_new(h2, NewHandle(h2), metaclass, name, bases,
                                       other)
                  IN  Outcome(t.res, t.heap, <<>>,
                              <<[fn |-> function, args |-> <<namespace>>,
                                 res |-> inv.res]>>, <<>>)

builtin_build_class_(vm, args) ==
    IF Len(args) < 2 THEN Pure(Abort, vm.heap)
    ELSE LET function == args[1]
             name_arg == vm.heap[args[2]]
         IN  IF name_arg.kind # "String" THEN Pure(Abort, vm.heap)
             ELSE LET name == name_arg.sval
                      bases == Append(SubSeq(args, 3, Len(args)), "object")
                      metaclass == vm_get_type
                      namespace == NewHandle(vm.heap)
                      h1 == [vm.heap EXCEPT ![namespace] = new_dict_obj(EmptyNs)]
                      inv == vm_invoke(h1, function, <<namespace>>)
                      t == objtype_new(inv.heap, NewHandle(inv.heap), metaclass,
                                       name, bases, namespace)
                  IN  Outcome(t.res, t.heap, <<>>,
                              <<[fn |-> function, args |-> <<namespace>>,
                                 res |-> inv.res]>>, <<>>)

(***************************************************************************)
(* The state after construction: the context's types with their            *)
(* namespaces, and the values of the scenarios.  Class A binds x, class M  *)
(* derives from A, classes L and M and the dict type bind __len__.         *)
(***************************************************************************)
NsInit ==
    ("A.ns" :> (StrX :> "three"))
    @@ ("L.ns" :> (StrLenMethod :> "fn_len"))
    @@ ("M.ns" :> (StrLenMethod :> "fn_fail"))
    @@ ("dict.ns" :> (StrLenMethod :> "fn_dictlen"))

ValueInit ==
    ("none" :> [NoObj EXCEPT !.kind = "None", !.typ = "object"])
    @@ ("three" :> new_int(3))
    @@ ("minus1" :> new_int(-1))
    @@ ("sx" :> new_str(StrX))
    @@ ("sgreet" :> new_str(StrGreet))
    @@ ("she" :> new_str(StrHe))
    @@ ("d3" :> new_dict_obj((StrX :> "three") @@ (StrY :> "sx") @@ (StrGreet :> "none")))
    @@ ("d0" :> new_dict_obj(EmptyNs))
    @@ ("t2" :> new_tuple(<<"three", "sx">>))
    @@ ("a" :> new_instance("A"))
    @@ ("l" :> new_instance("L"))
    @@ ("m" :> new_instance("M"))
    @@ ("fn_len" :> new_rustfunc("len7"))
    @@ ("fn_dictlen" :> new_rustfunc("len99"))
    @@ ("fn_fail" :> new_rustfunc("fail"))
    @@ ("boom" :> new_exception("RuntimeError", "boom"))
    @@ ("body_greet" :> new_rustfunc("body_greet"))
    @@ ("body_fail" :> new_rustfunc("body_fail"))
    @@ ("body_empty" :> new_rustfunc("body_empty"))
    @@ ("code" :> new_code(StrY, "three"))
    @@ ("locals" :> new_dict_obj((StrX :> "three")))

HeapInit ==
    [x \in Handles |->
        CASE x \in TypeHandles ->
                new_class(IF x = "type" THEN Null ELSE "type", <<>>, TypeBases[x],
                          TypeNs[x])
          [] x \in NsHandles ->
                new_dict_obj(IF x \in DOMAIN NsInit THEN NsInit[x] ELSE EmptyNs)
          [] x \in ValueHandles -> ValueInit[x]
          [] OTHER -> NoObj]

IdPool == {"a", "three", "sx"}

AddrInit ==
    ("a" :> <<4096, 21845, 32767, 0>>) @@ ("three" :> <<4112, 21845, 32767, 0>>)
    @@ ("sx" :> <<4128, 21845, 32767, 0>>)

LastInit ==
    [op |-> "start", args |-> <<>>, res |-> OkRef("none"), looked |-> <<>>,
     invoked |-> <<>>, ran |-> <<>>, wrote |-> {}, fresh |-> {}]

Init ==
    /\ heap = HeapInit
    /\ addr = AddrInit
    /\ last = LastInit

(***************************************************************************)
(* One call of a builtin, on arguments drawn from I: nothing runs after an *)
(* abort; the heap becomes the one the builtin leaves, and `last` records  *)
(* the call, its result, the protocol calls it made, the objects it        *)
(* changed (wrote) and the objects it allocated (fresh).                   *)
(***************************************************************************)
Halted == last.res.tag = "Abort"

\* The objects allocated while running, by kind.
Built(kind) == {x \in DynHandles : heap[x].kind = kind}

BuiltClasses == Built("Type")

\* Bounds on the objects a scenario allocates.
MaxClasses == 2

MaxInstances == 1

MaxSnapshots == 2

Call(op, args, out) ==
    [op |-> op, args |-> args, res |-> out.res, looked |-> out.looked,
     invoked |-> out.invoked, ran |-> out.ran,
     wrote |-> IF out.heap = heap THEN {}
               ELSE {x \in Handles : heap[x].kind # "Free" /\ out.heap[x] # heap[x]},
     fresh |-> IF out.heap = heap THEN {}
               ELSE {x \in Handles : heap[x].kind = "Free" /\ out.heap[x].kind # "Free"}]

Chr(I) ==
    /\ ~Halted
    /\ \E args \in I : \E out \in {builtin_chr(VM, args)} :
           /\ heap' = out.heap
           /\ last' = Call("chr", args, out)
    /\ UNCHANGED addr

Compile(I) ==
    /\ ~Halted
    /\ \E args \in I : \E out \in {builtin_compile(VM, args)} :
           /\ heap' = out.heap
           /\ last' = Call("compile", args, out)
    /\ UNCHANGED addr

Eval(I) ==
    /\ ~Halted
    /\ \E args \in I : \E out \in {builtin_eval(VM, args)} :
           /\ heap' = out.heap
           /\ last' = Call("eval", args, out)
    /\ UNCHANGED addr

Getattr(I) ==
    /\ ~Halted
    /\ \E args \in I : \E out \in {builtin_getattr(VM, args)} :
           /\ heap' = out.heap
           /\ last' = Call("getattr", args, out)
    /\ UNCHANGED addr

Hasattr(I) ==
    /\ ~Halted
    /\ \E args \in I : \E out \in {builtin_hasattr(VM, args)} :
           /\ heap' = out.heap
           /\ last' = Call("hasattr", args, out)
    /\ UNCHANGED addr

Id(I) ==
    /\ ~Halted
    /\ \E args \in I : \E out \in {builtin_id(VM, args)} :
           /\ heap' = out.heap
           /\ last' = Call("id", args, out)
    /\ UNCHANGED addr

Isinstance(I) ==
    /\ ~Halted
    /\ \E args \in I : \E out \in {builtin_isinstance(VM, args)} :
           /\ heap' = out.heap
           /\ last' = Call("isinstance", args, out)
    /\ UNCHANGED addr

Length(I) ==
    /\ ~Halted
    /\ \E args \in I : \E out \in {builtin_len(VM, args)} :
           /\ heap' = out.heap
           /\ last' = Call("len", args, out)
    /\ UNCHANGED addr

Locals(I) ==
    /\ ~Halted
    /\ \E args \in I : \E out \in {builtin_locals(VM, args)} :
           /\ heap' = out.heap
           /\ last' = Call("locals", args, out)
    /\ UNCHANGED addr

Range(I) ==
    /\ ~Halted
    /\ \E args \in I : \E out \in {builtin_range(VM, args)} :
           /\ heap' = out.heap
           /\ last' = Call("range", args, out)
    /\ UNCHANGED addr

Setattr(I) ==
    /\ ~Halted
    /\ \E args \in I : \E out \in {builtin_setattr(VM, args)} :
           /\ heap' = out.heap
           /\ last' = Call("setattr", args, out)
    /\ UNCHANGED addr

BuildClass(I) ==
    /\ ~Halted
    /\ Cardinality(BuiltClasses) < MaxClasses
    /\ \E args \in I : \E out \in {builtin_build_class_(VM, args)} :
           /\ heap' = out.heap
           /\ last' = Call("build_class", args, out)
    /\ UNCHANGED addr

Dir(I) ==
    /\ ~Halted
    /\ Cardinality(Built("Dict")) < MaxSnapshots
    /\ \E args \in I : \E out \in {builtin_dir(VM, args)} :
           /\ heap' = out.heap
           /\ last' = Call("dir", args, out)
    /\ UNCHANGED addr

Tuples(pool, n) == [1..n -> pool]

(***************************************************************************)
(* Attribute protocol scenario: getattr, hasattr and setattr on an         *)
(* instance whose class binds x (a), on that class (A), on an instance     *)
(* whose class inherits x (m) and with a String (sx); a, A and m also      *)
(* stand as names that are no String.                                      *)
(***************************************************************************)
AttrPool == {"a", "A", "m", "sx"}

Next ==
    \/ Getattr(Tuples(AttrPool, 2))
    \/ Hasattr(Tuples(AttrPool, 2))
    \/ Setattr(Tuples(AttrPool, 3))

Spec == Init /\ [][Next]_vars

(***************************************************************************)
(* hasattr answers as getattr does.                                        *)
(***************************************************************************)
IsString(x) == heap[x].kind = "String"

BoolOf(res) == res.obj.kind = "Boolean" /\ res.obj.ival = 1

\* C1: for a String name, hasattr never fails, returns true exactly when
\* getattr on the same receiver and name succeeds and false exactly when it
\* fails, and changes no object of the heap.
C1_HasattrIffGetattr ==
    (last.op = "hasattr" /\ Len(last.args) = 2 /\ IsString(last.args[2])) =>
        /\ last.res.tag = "Ok"
        /\ last.res.ref = Null
        /\ last.res.obj.kind = "Boolean"
        /\ BoolOf(last.res) <=> (builtin_getattr(VM, last.args).res.tag = "Ok")
        /\ last.wrote = {}
        /\ last.fresh = {}

\* hasattr found x on an instance on which an earlier setattr bound it, after
\* a setattr on another object.
C1_Witness ==
    /\ last.op = "hasattr"
    /\ last.args = <<"m", "sx">>
    /\ BoolOf(last.res)
    /\ StrX \in DOMAIN heap["m"].dict
    /\ StrX \in DOMAIN heap["a"].dict

\* C2: after a successful setattr(obj, x, v) on an object that supports
\* instance attributes, getattr(obj, x) succeeds with the handle v itself,
\* whatever the type chain binds and whatever was set before.
C2_SetThenGet ==
    (/\ last.op = "setattr"
     /\ Len(last.args) = 3
     /\ last.res.tag = "Ok"
     /\ SupportsAttributes(heap, last.args[1])) =>
        builtin_getattr(VM, <<last.args[1], last.args[2]>>).res = OkRef(last.args[3])

\* setattr on an instance whose class inherits another binding of x from its
\* base, after earlier setattr calls rebound x on that base and set x on
\* another object.
C2_Witness ==
    /\ last.op = "setattr"
    /\ last.args = <<"m", "sx", "a">>
    /\ last.res.tag = "Ok"
    /\ "m" \in last.wrote
    /\ TypeLookup(heap, "M", StrX) \notin {Null, "a", "three"}
    /\ StrX \in DOMAIN heap["a"].dict

(***************************************************************************)
(* Argument count scenario: every builtin that declares an expected count  *)
(* is called with 0 .. MaxArgs arguments: the first arguments of a call    *)
(* that suits it, followed by None.                                        *)
(***************************************************************************)
MaxArgs == 4

\* The declared <<minimum, maximum>> of each builtin; -1: no maximum.
Declared ==
    ("chr" :> <<1, 1>>) @@ ("compile" :> <<1, -1>>) @@ ("eval" :> <<3, 3>>)
    @@ ("getattr" :> <<2, 2>>) @@ ("hasattr" :> <<2, 2>>) @@ ("id" :> <<1, 1>>)
    @@ ("isinstance" :> <<2, 2>>) @@ ("len" :> <<1, 1>>) @@ ("locals" :> <<0, 0>>)
    @@ ("range" :> <<1, 1>>) @@ ("setattr" :> <<3, 3>>)

Padded(g, n) == [i \in 1..n |-> IF i <= Len(g) THEN g[i] ELSE "none"]

ArityInputs(good) == {Padded(g, n) : g \in good, n \in 0..MaxArgs}

NextArity ==
    \/ Chr(ArityInputs({<<"three">>, <<"minus1">>}))
    \/ Compile(ArityInputs({<<"sx">>, <<"a">>}))
    \/ Eval(ArityInputs({<<"code", "none", "locals">>, <<"code", "none", "d0">>}))
    \/ Getattr(ArityInputs({<<"a", "sx">>, <<"l", "sgreet">>}))
    \/ Hasattr(ArityInputs({<<"a", "sx">>, <<"l", "sgreet">>}))
    \/ Id(ArityInputs({<<"a">>, <<"three">>}))
    \/ Isinstance(ArityInputs({<<"a", "A">>, <<"a", "L">>}))
    \/ Length(ArityInputs({<<"d3">>, <<"l">>, <<"m">>}))
    \/ Locals(ArityInputs({<<>>}))
    \/ Range(ArityInputs({<<"three">>}))
    \/ Setattr(ArityInputs({<<"a", "sx", "three">>, <<"l", "sgreet", "sx">>,
                            <<"A", "sx", "none">>}))

SpecArity == Init /\ [][NextArity]_vars

IsTypeError(res) ==
    /\ res.tag = "Err"
    /\ IF res.ref = Null
       THEN res.obj.kind = "Instance" /\ res.obj.typ = "TypeError"
       ELSE heap[res.ref].kind = "Instance" /\ heap[res.ref].typ = "TypeError"

OutsideDeclared(op, n) ==
    \/ n < Declared[op][1]
    \/ Declared[op][2] # -1 /\ n > Declared[op][2]

\* C4: a builtin called with a number of arguments outside its declared
\* minimum/maximum returns a TypeError failure and has done nothing: no
\* attribute looked up, no callable invoked, no code run, no object of the
\* heap changed or allocated.
C4_WrongCountFailsFirst ==
    (last.op \in DOMAIN Declared /\ OutsideDeclared(last.op, Len(last.args))) =>
        /\ IsTypeError(last.res)
        /\ last.looked = <<>>
        /\ last.invoked = <<>>
        /\ last.ran = <<>>
        /\ last.wrote = {}
        /\ last.fresh = {}

\* setattr with four arguments failed with a TypeError and wrote nothing,
\* in a state where setattr with three arguments had written the receiver
\* and eval had run code.
C4_Witness ==
    /\ last.op = "setattr"
    /\ last.args = <<"a", "sx", "three", "none">>
    /\ IsTypeError(last.res)
    /\ last.wrote = {}
    /\ StrGreet \in DOMAIN heap["l"].dict
    /\ StrX \notin DOMAIN heap["a"].dict
    /\ StrY \in DOMAIN heap["locals"].dict

(***************************************************************************)
(* Argument kind scenario: len, range and chr on one value of every kind,  *)
(* and getattr, hasattr and setattr with names that are and are not        *)
(* Strings.                                                                *)
(***************************************************************************)
KindPool ==
    {"none", "three", "minus1", "sx", "she", "d3", "d0", "t2", "a", "l", "m",
     "fn_len"}

NamePool == {"a", "sx", "three"}

NextKind ==
    \/ Length(Tuples(KindPool, 1))
    \/ Range(Tuples(KindPool, 1))
    \/ Chr(Tuples(KindPool, 1))
    \/ Getattr(Tuples(NamePool, 2))
    \/ Hasattr(Tuples(NamePool, 2))
    \/ Setattr(Tuples(NamePool, 3))

SpecKind == Init /\ [][NextKind]_vars

HasIntrinsicLength(x) == heap[x].kind \in {"Dict", "Tuple", "String"}

WrongKindCall ==
    \/ /\ last.op = "len"
       /\ Len(last.args) = 1
       /\ ~HasIntrinsicLength(last.args[1])
       /\ vm_get_attribute(heap, last.args[1], StrLenMethod).tag = "Err"
    \/ /\ last.op \in {"range", "chr"}
       /\ Len(last.args) = 1
       /\ heap[last.args[1]].kind # "Integer"
    \/ /\ last.op \in {"getattr", "hasattr"}
       /\ Len(last.args) = 2
       /\ ~IsString(last.args[2])
    \/ /\ last.op = "setattr"
       /\ Len(last.args) = 3
       /\ ~IsString(last.args[2])

\* C6: a builtin given an argument of the wrong kind returns a failure that
\* carries an exception of the TypeError type: it does not abort and its
\* failure carries no Value of another kind.
C6_WrongKindIsTypeError == WrongKindCall => IsTypeError(last.res)

\* The number of elements of a value of an intrinsic-length kind: the entries
\* of a Dict, the elements of a Tuple, the Unicode scalar values of a String.
NumElements(o) ==
    CASE o.kind = "Dict" -> Cardinality(DOMAIN o.dict)
      [] o.kind = "Tuple" -> Len(o.items)
      [] o.kind = "String" -> Len(o.sval)

\* C10: len of a Dict, Tuple or String is the Integer of its number of
\* elements and consults no attribute, also when __len__ resolves on it; len
\* of any other kind looks up __len__ and, when it resolves, returns the
\* result of invoking it, a failure included.
C10_LenOfIntrinsicKinds ==
    (last.op = "len" /\ Len(last.args) = 1) =>
        IF HasIntrinsicLength(last.args[1])
        THEN /\ last.res = OkNew(new_int(NumElements(heap[last.args[1]])))
             /\ last.looked = <<>>
             /\ last.invoked = <<>>
        ELSE /\ last.looked = <<[obj |-> last.args[1], name |-> StrLenMethod]>>
             /\ LET r == vm_get_attribute(heap, last.args[1], StrLenMethod)
                IN  r.tag = "Ok" =>
                        /\ Len(last.invoked) = 1
                        /\ last.invoked[1].fn = r.ref
                        /\ last.res = last.invoked[1].res
                        /\ last.res = vm_invoke(heap, r.ref, <<>>).res

(***************************************************************************)
(* Class construction scenario: up to MaxClasses classes are built from a  *)
(* body, a name and explicit bases, and up to MaxInstances instances of    *)
(* them are created.                                                       *)
(***************************************************************************)
Bodies == {"body_greet", "body_fail", "body_empty", "none"}

BaseLists == {<<>>, <<"A">>, <<"object">>, <<"A", "object">>, <<"object", "A">>}

ClassInputs ==
    {<<b, n>> \o bs : b \in Bodies, n \in {"sgreet"}, bs \in BaseLists}
    \cup {<<"body_greet", "three">>}

\* An instance of a constructed class, with no attribute of its own.
NewInstance ==
    /\ ~Halted
    /\ Cardinality(Built("Instance")) < MaxInstances
    /\ \E t \in BuiltClasses :
           LET i == NewHandle(heap)
               out == Pure(OkRef(i), [heap EXCEPT ![i] = new_instance(t)])
           IN  /\ heap' = out.heap
               /\ last' = Call("new_instance", <<t>>, out)
    /\ UNCHANGED addr

NextClass ==
    \/ BuildClass(ClassInputs)
    \/ NewInstance

SpecClass == Init /\ [][NextClass]_vars

\* C5: when the invocation of the body fails, class construction returns
\* that failure and no Type.
C5_BodyFailurePropagates ==
    (/\ last.op = "build_class"
     /\ last.invoked # <<>>
     /\ last.invoked[1].res.tag = "Err") =>
        last.res = last.invoked[1].res

\* C8: every constructed Type has a base list that ends in the root type;
\* the Type a construction returns has the explicit bases, in the order
\* given, followed by the root type, and the name supplied.
C8_BasesEndInRoot ==
    /\ \A t \in BuiltClasses :
           /\ heap[t].items # <<>>
           /\ heap[t].items[Len(heap[t].items)] = "object"
    /\ (last.op = "build_class" /\ last.res.tag = "Ok") =>
           /\ last.res.ref \in BuiltClasses
           /\ heap[last.res.ref].items
                  = SubSeq(last.args, 3, Len(last.args)) \o <<"object">>
           /\ heap[last.res.ref].sval = heap[last.args[2]].sval

\* A second class was built with the root type first among its explicit
\* bases.
C8_Witness ==
    /\ last.op = "build_class"
    /\ last.res.tag = "Ok"
    /\ SubSeq(last.args, 3, Len(last.args)) = <<"object", "A">>
    /\ Cardinality(BuiltClasses) = 2
    /\ \E t \in BuiltClasses : heap[t].items = <<"object">>

\* What a body binds in an empty namespace.
BodyBindings(body) ==
    LET scratch == [HeapInit EXCEPT !["n1"] = new_dict_obj(EmptyNs)]
    IN  vm_invoke(scratch, body, <<"n1">>).heap["n1"].dict

\* C9: a construction invokes the body once, on a newly allocated namespace
\* and nothing else; that namespace is the Type's own and holds what the
\* body binds in an empty one; no other object is changed or allocated; and
\* every name of a constructed class's namespace resolves, on an instance of
\* the class, to the value bound there.
C9_BodyFillsTheTypeNamespace ==
    /\ (last.op = "build_class" /\ last.res.tag = "Ok") =>
           /\ Len(last.invoked) = 1
           /\ last.invoked[1].fn = last.args[1]
           /\ Len(last.invoked[1].args) = 1
           /\ LET ns == last.invoked[1].args[1]
                  t == last.res.ref
              IN  /\ ns \in last.fresh
                  /\ heap[t].ref = ns
                  /\ heap[ns].kind = "Dict"
                  /\ heap[ns].dict = BodyBindings(last.args[1])
                  /\ last.fresh = {ns, t}
                  /\ last.wrote = {}
    /\ \A i \in Built("Instance") :
           heap[i].typ \in BuiltClasses =>
               LET ns == heap[heap[heap[i].typ].ref].dict
               IN  \A n \in DOMAIN ns : vm_get_attribute(heap, i, n) = OkRef(ns[n])

\* An instance of a class built by the body that binds greet resolves greet
\* to the function the body bound.
C9_Witness ==
    /\ last.op = "new_instance"
    /\ last.res.tag = "Ok"
    /\ builtin_getattr(VM, <<last.res.ref, "sgreet">>).res = OkRef("fn_len")
    /\ heap[last.args[1]].items = <<"object">>

(***************************************************************************)
(* Locals scenario: locals() and dir() are called, the running frame       *)
(* stores into its locals (4.4, bind), and the caller stores into the      *)
(* namespace the last locals() or dir() call returned.                     *)
(***************************************************************************)
LocalNames == {StrX, StrY}

LocalValues == {"three", "sx"}

StoreLocal ==
    /\ ~Halted
    /\ \E name \in LocalNames, v \in LocalValues :
           LET out == Pure(OkRef("none"), set_item(heap, vm_get_locals(VM), name, v))
           IN  /\ heap' = out.heap
               /\ last' = Call("store_local", <<v>>, out)
    /\ UNCHANGED addr

ReturnedNamespace == last.op \in {"locals", "dir"} /\ last.res.tag = "Ok"

WriteReturned ==
    /\ ~Halted
    /\ ReturnedNamespace
    /\ \E name \in LocalNames, v \in LocalValues :
           LET out == Pure(OkRef("none"), set_item(heap, last.res.ref, name, v))
           IN  /\ heap' = out.heap
               /\ last' = Call("set_item", <<last.res.ref, v>>, out)
    /\ UNCHANGED addr

NextLocals ==
    \/ Locals({<<>>})
    \/ Dir({<<>>, <<"a">>})
    \/ StoreLocal
    \/ WriteReturned

SpecLocals == Init /\ [][NextLocals]_vars

CurrentLocalsQuery == ReturnedNamespace /\ last.args = <<>>

\* C3: the namespace locals() or dir() returned is a copy: a store into the
\* live locals after the call leaves the returned namespace as it was, and
\* a store into the returned namespace leaves the live locals as they were.
C3_LocalsIsACopy ==
    [][CurrentLocalsQuery =>
          /\ last'.op = "store_local" => heap'[last.res.ref] = heap[last.res.ref]
          /\ last'.op = "set_item" =>
                 heap'[vm_get_locals(VM)] = heap[vm_get_locals(VM)]]_vars

(***************************************************************************)
(* Identity scenario: three live objects at any three distinct addresses   *)
(* of a 64-bit address space, and id() of each.                            *)
(***************************************************************************)
AddrSpace ==
    {<<l0, l1, l2, 0>> : l0 \in {4096, 4112}, l1 \in {21845, 43690},
                         l2 \in {32766, 32767}}

InitId ==
    /\ heap = HeapInit
    /\ addr \in {f \in [IdPool -> AddrSpace] :
                    \A x, y \in IdPool : x # y => f[x] # f[y]}
    /\ last = LastInit

NextId == Id(Tuples(IdPool, 1))

SpecId == InitId /\ [][NextId]_vars

\* C7: the token id() returns for a Value differs from the token of every
\* other live Value, and id() of the same Value returns the same token
\* again.
C7_IdTokensDistinct ==
    (last.op = "id" /\ last.res.tag = "Ok") =>
        /\ builtin_id(VM, last.args).res = last.res
        /\ \A y \in IdPool \ {last.args[1]} :
               builtin_id(VM, <<y>>).res.obj.ival # last.res.obj.ival

=============================================================================
